---- MODULE Spec2Model ----
(***************************************************************************)
(* Model of the CloudSQL automation utility.                               *)
(*                                                                         *)
(*   src/deletion/server.py     the Flask service: the intake handler      *)
(*                              proxy() on POST /proxysql and the delete   *)
(*                              endpoint index() on POST /delete/<inst>.   *)
(*   src/creation/gcsql_admin.py the CloudSqlAdmin facade over the Cloud   *)
(*                              SQL Admin API (databases, instances,       *)
(*                              users).                                    *)
(*                                                                         *)
(* Spec        runs the Flask service, one request at a time.              *)
(* SpecFacade  runs a client of the facade, one call at a time.            *)
(*                                                                         *)
(* Remote services are the environment: every remote call draws its        *)
(* outcome (a response, a timeout, another transport error) with \E.       *)
(***************************************************************************)
EXTENDS Integers, Sequences, FiniteSets, TLC

(***************************************************************************)
(* Bounds of the model.                                                    *)
(***************************************************************************)
MaxPages == 2   \* pages in one paginated listing
MaxItems == 2   \* items on one page

(***************************************************************************)
(* Program constants.                                                      *)
(***************************************************************************)
SETTLE_SLEEP  == 10    \* sleep(10), server.py lines 76 and 98
DELETE_SLEEP  == 600   \* sleep(600), server.py line 148
BAD_REQUEST   == 400   \* server.py lines 30 and 35
OK            == 200   \* server.py lines 121, 129, 153
SERVER_ERROR  == 500   \* Flask's answer to an uncaught exception or a None return

MY_PROJECT == "MY_PROJECT"   \* from config
RUN_URL    == "RUN_URL"      \* from config

\* the naming token 'autorep' of server.py line 62, as a character sequence
Token == <<"a", "u", "t", "o", "r", "e", "p">>

\* the webhook URLs of server.py line 90, in order
url == << "http://10.14.1.5:9001/hooks/webhook2-vm02",
          "http://10.14.1.4:9001/hooks/webhook2-vm01",
          "http://10.14.1.6:9001/hooks/webhook2-vm03",
          "http://10.14.0.7:9001/hooks/webhook-del-vm01" >>

(***************************************************************************)
(* Python values.                                                          *)
(***************************************************************************)
\* a dict is a function from its keys; {} is the function with no keys
EmptyDict == [k \in {} |-> k]

\* dict.get(key, default)
DictGet(d, key, default) == IF key \in DOMAIN d THEN d[key] ELSE default

\* Python truthiness of a str: the empty string is falsy
Truthy(v) == v # ""

\* `needle in haystack` for two str, as character sequences
Contains(needle, haystack) ==
    \E i \in 1..(Len(haystack) - Len(needle) + 1) :
        SubSeq(haystack, i, i + Len(needle) - 1) = needle

\* all sequences over S of length 0..n
RECURSIVE SeqsUpTo(_, _)
SeqsUpTo(S, n) ==
    IF n = 0 THEN {<<>>}
    ELSE LET shorter == SeqsUpTo(S, n - 1)
         IN  shorter \cup {Append(s, x) : s \in {t \in shorter : Len(t) = n - 1}, x \in S}

\* a JSON value as request.get_json() gives it: None, a list, or a dict
JsonNone      == [type |-> "none"]
JsonList      == [type |-> "list"]
JsonStr       == [type |-> "str"]
JsonDict(d)   == [type |-> "dict", val |-> d]
IsDict(v)     == v.type = "dict"
\* `not v`: None and the empty dict are falsy
Falsy(v)      == v.type = "none" \/ (v.type = "dict" /\ v.val = EmptyDict)
HasKey(v, k)  == k \in DOMAIN v.val

(***************************************************************************)
(* The environment's data.                                                 *)
(***************************************************************************)
\* instance names: two that contain the token, one that does not
InstanceNames == { Token \o <<"1">>,
                   <<"d", "b">> \o Token,
                   <<"a", "u", "t", "o">> }

IpAddresses == {"10.0.0.5", "10.0.0.6"}

InstanceStates == {"RUNNABLE", "PENDING_CREATE"}

\* base64 payloads a notification can carry
DataValues == {"b64:open", "b64:closed", "b64:garbage"}

\* json.loads(base64.b64decode(data).decode("utf-8").strip()): the parsed
\* payload, or "error" where json.loads raises
ParsePayload(name) ==
    CASE name = "b64:open"   -> [ok |-> TRUE,  incident |-> [state |-> "open"]]
      [] name = "b64:closed" -> [ok |-> TRUE,  incident |-> [state |-> "closed"]]
      [] OTHER               -> [ok |-> FALSE, incident |-> [state |-> ""]]

\* the "message" of an envelope: a str, {} or {"data": ...}
Messages == {JsonStr, JsonDict(EmptyDict)}
               \cup {JsonDict([data |-> d]) : d \in DataValues}

Envelopes == {JsonNone, JsonList, JsonDict(EmptyDict), JsonDict([subscription |-> JsonStr])}
                \cup {JsonDict([message |-> m]) : m \in Messages}

\* one page of an instances listing: {"items": [{"name": ...}, ...]}
Pages == { [items |-> s] :
             s \in SeqsUpTo({[name |-> n] : n \in InstanceNames}, MaxItems) }

\* what instances().get answers: state and the IP bindings
Metadatas == { [state |-> st, ipAddresses |-> ips] :
                 st \in InstanceStates,
                 ips \in SeqsUpTo({[ipAddress |-> a] : a \in IpAddresses}, 1) }

\* how one outbound HTTP call of the handler can end: a response,
\* requests.Timeout, or any other exception
HttpOutcomes == {"ok", "timeout", "error"}

\* how request.execute() of the API client can end: a response body, or
\* googleapiclient.errors.HttpError
Answer(body) == [raised |-> FALSE, body |-> body]
HttpError    == [raised |-> TRUE, body |-> EmptyDict]

\* one outbound call, as the log keeps it
Call(kind, target, body) == [kind |-> kind, target |-> target, body |-> body]

VARIABLES
    \* ---- the Flask service (server.py) ----
    pc,          \* position of the request being handled
    route,       \* the route of the request: "/proxysql" or "/delete"
    envelope,    \* proxy: request.get_json()
    msg,         \* proxy: the parsed payload
    requestA,    \* proxy: the listing request: "unset", "request" or "None"
    listing,     \* proxy: the pages the Admin API answered so far
    ans,         \* proxy: names that matched, in listing order
    metadata,    \* proxy: what sql_admin.instances.get returned
    next_url,    \* proxy: index in url of the next webhook to call
    instance,    \* index: the <instance> of the request path
    calls,       \* outbound calls of the request so far, in order
    elapsed,     \* seconds slept by the request so far
    status,      \* HTTP status of the response, 0 while there is none
    returned,    \* how the handler ended: "response", "none", "exception"
    \* ---- a client of the facade (gcsql_admin.py) ----
    response,    \* CloudSqlAdmin.response: the response to the last API call
    called,      \* the facade method called last, with its arguments
    remote,      \* what the Admin API had to answer to that call
    result       \* how that call ended: value returned or exception raised,
                 \* and the requests it executed

server_vars == <<pc, route, envelope, msg, requestA, listing, ans, metadata, next_url,
                 instance, calls, elapsed, status, returned>>

facade_vars == <<response, called, remote, result>>

vars == <<server_vars, facade_vars>>

NoMsg == [ok |-> FALSE, incident |-> [state |-> ""]]

ServerInit ==
    /\ pc = "idle"
    /\ route = ""
    /\ envelope = JsonNone
    /\ msg = NoMsg
    /\ requestA = "unset"
    /\ listing = <<>>
    /\ ans = <<>>
    /\ metadata = EmptyDict
    /\ next_url = 1
    /\ instance = <<>>
    /\ calls = <<>>
    /\ elapsed = 0
    /\ status = 0
    /\ returned = ""

(***************************************************************************)
(* How a handler ends.                                                     *)
(***************************************************************************)
\* `return body, code` or `return Response(status=code)`
Respond(code) ==
    /\ pc' = "done"
    /\ status' = code
    /\ returned' = "response"

\* an exception leaves the view function: Flask answers 500
Raise ==
    /\ pc' = "done"
    /\ status' = SERVER_ERROR
    /\ returned' = "exception"

\* the view function falls off its end and returns None: Flask rejects the
\* None return value and answers 500
ReturnNone ==
    /\ pc' = "done"
    /\ status' = SERVER_ERROR
    /\ returned' = "none"

Goto(label) ==
    /\ pc' = label
    /\ UNCHANGED <<status, returned>>

(***************************************************************************)
(* proxy(): POST /proxysql                                                 *)
(***************************************************************************)
\* lines 26-48: read the envelope, validate it, decode and parse the payload
ProxyReceive ==
    /\ pc = "idle"
    /\ UNCHANGED facade_vars
    /\ \E e \in Envelopes :
        /\ envelope' = e
        /\ IF Falsy(e) THEN
               Respond(BAD_REQUEST) /\ UNCHANGED msg
           ELSE IF ~IsDict(e) \/ ~HasKey(e, "message") THEN
               Respond(BAD_REQUEST) /\ UNCHANGED msg
           ELSE
               LET pubsub_message == e.val["message"]
                   name == IF IsDict(pubsub_message) /\ HasKey(pubsub_message, "data")
                           THEN pubsub_message.val["data"]
                           ELSE "World"
                   parsed == ParsePayload(name)
               IN  IF parsed.ok
                   THEN msg' = parsed /\ Goto("auth")
                   ELSE Raise /\ UNCHANGED msg
    /\ route' = "/proxysql"
    /\ UNCHANGED <<requestA, listing, ans, metadata, next_url, instance, calls, elapsed>>

\* lines 49-51: ambient credentials, refresh, build the sqladmin client
ProxyAuth ==
    /\ pc = "auth"
    /\ UNCHANGED facade_vars
    /\ calls' = Append(calls, Call("auth", <<>>, ""))
    /\ \E outcome \in {"ok", "error"} :
        IF outcome = "ok" THEN Goto("list") ELSE Raise
    /\ UNCHANGED <<route, envelope, msg, requestA, listing, ans, metadata, next_url, instance, elapsed>>

\* Matching with the filter of line 62 dropped: every name is kept
MatchingUnfiltered(items) == [i \in 1..Len(items) |-> items[i].name]

\* the names of a page that contain the token, in page order (lines 59-63)
RECURSIVE Matching(_)
Matching(items) ==
    IF items = <<>> THEN <<>>
    ELSE (IF Contains(Token, Head(items).name) THEN <<Head(items).name>> ELSE <<>>)
            \o Matching(Tail(items))

\* lines 56-65, one turn of the loop: fetch a page, keep the matching names,
\* ask for the next request
ProxyListPage ==
    /\ pc = "list"
    /\ UNCHANGED facade_vars
    /\ calls' = Append(calls, Call("list", <<MY_PROJECT>>, ""))
    /\ \/ \E responseA \in Pages, more \in BOOLEAN :
            /\ more => Len(listing) + 1 < MaxPages
            /\ listing' = Append(listing, responseA)
            /\ ans' = ans \o Matching(responseA.items)
            /\ requestA' = IF more THEN "request" ELSE "None"
            /\ IF more THEN Goto("list") ELSE Goto("select")
       \/ /\ Raise
          /\ requestA' = "request"
          /\ UNCHANGED <<listing, ans>>
    /\ UNCHANGED <<route, envelope, msg, metadata, next_url, instance, elapsed>>

\* lines 66-73 and 123-130: no match answers 200; a match with an incident
\* that is not open prints and falls off the end of the function
ProxySelect ==
    /\ pc = "select"
    /\ UNCHANGED facade_vars
    /\ IF Len(ans) >= 1 THEN
           IF msg.incident.state = "open" THEN Goto("get") ELSE ReturnNone
       ELSE Respond(OK)
    /\ UNCHANGED <<route, envelope, msg, requestA, listing, ans, metadata, next_url, instance,
                   calls, elapsed>>

\* Instances.get (gcsql_admin.py lines 195-213): the metadata, {} on HttpError
InstancesGet(outcome) == IF outcome.raised THEN EmptyDict ELSE outcome.body

\* ProxyGet with the test of line 81 left out: any fetched state goes on
ProxyGetUngated ==
    /\ pc = "get"
    /\ UNCHANGED facade_vars
    /\ elapsed' = elapsed + SETTLE_SLEEP
    /\ calls' = Append(calls, Call("get", <<MY_PROJECT, ans[1]>>, ""))
    /\ \E outcome \in {Answer(m) : m \in Metadatas} \cup {HttpError} :
        /\ metadata' = InstancesGet(outcome)
        /\ IF "state" \notin DOMAIN metadata' THEN Raise
           ELSE IF Len(metadata'.ipAddresses) >= 1 THEN Goto("webhook") ELSE Raise
    /\ UNCHANGED <<route, envelope, msg, requestA, listing, ans, next_url, instance>>

\* lines 74-88: settle, fetch the metadata of ans[0], gate on its state
ProxyGet ==
    /\ pc = "get"
    /\ UNCHANGED facade_vars
    /\ elapsed' = elapsed + SETTLE_SLEEP
    /\ calls' = Append(calls, Call("get", <<MY_PROJECT, ans[1]>>, ""))
    /\ \E outcome \in {Answer(m) : m \in Metadatas} \cup {HttpError} :
        /\ metadata' = InstancesGet(outcome)
        /\ IF "state" \notin DOMAIN metadata' THEN Raise
           ELSE IF metadata'.state = "RUNNABLE" THEN
               IF Len(metadata'.ipAddresses) >= 1 THEN Goto("webhook") ELSE Raise
           ELSE ReturnNone
    /\ UNCHANGED <<route, envelope, msg, requestA, listing, ans, next_url, instance>>

\* line 83: the JSON text {"name": "<ip>"}
Payload(private_ip) == [name |-> private_ip]

\* lines 92-95, one turn of the loop inside the try: POST the payload to the
\* next webhook; requests.Timeout is caught at line 118, anything else leaves
ProxyWebhook ==
    /\ pc = "webhook"
    /\ UNCHANGED facade_vars
    /\ next_url <= Len(url)
    /\ calls' = Append(calls, Call("webhook", <<url[next_url]>>,
                                   Payload(metadata.ipAddresses[1].ipAddress)))
    /\ \E outcome \in HttpOutcomes :
        CASE outcome = "ok" ->
                /\ next_url' = next_url + 1
                /\ IF next_url' > Len(url) THEN Goto("token") ELSE Goto("webhook")
          [] outcome = "timeout" ->
                /\ Goto("respond")
                /\ UNCHANGED next_url
          [] OTHER ->
                /\ Raise
                /\ UNCHANGED next_url
    /\ UNCHANGED <<route, envelope, msg, requestA, listing, ans, metadata, instance, elapsed>>

\* lines 96-102: settle, fetch the identity token for RUN_URL
ProxyToken ==
    /\ pc = "token"
    /\ UNCHANGED facade_vars
    /\ elapsed' = elapsed + SETTLE_SLEEP
    /\ calls' = Append(calls, Call("token", <<RUN_URL>>, ""))
    /\ \E outcome \in {"ok", "error"} :
        IF outcome = "ok" THEN Goto("trigger") ELSE Raise
    /\ UNCHANGED <<route, envelope, msg, requestA, listing, ans, metadata, next_url, instance>>

\* line 115: POST RUN_URL + "/delete/" + MY_INSTANCE with timeout=1
ProxyTrigger ==
    /\ pc = "trigger"
    /\ UNCHANGED facade_vars
    /\ calls' = Append(calls, Call("trigger", <<RUN_URL, "/delete/", ans[1]>>, ""))
    /\ \E outcome \in HttpOutcomes :
        IF outcome \in {"ok", "timeout"} THEN Goto("respond") ELSE Raise
    /\ UNCHANGED <<route, envelope, msg, requestA, listing, ans, metadata, next_url, instance, elapsed>>

\* lines 121-122
ProxyRespond ==
    /\ pc = "respond"
    /\ UNCHANGED facade_vars
    /\ Respond(OK)
    /\ UNCHANGED <<route, envelope, msg, requestA, listing, ans, metadata, next_url, instance,
                   calls, elapsed>>

(***************************************************************************)
(* index(instance): POST /delete/<instance>                                *)
(***************************************************************************)
\* lines 136-144: the request arrives; ambient credentials and refresh
IndexReceive ==
    /\ pc = "idle"
    /\ UNCHANGED facade_vars
    /\ route' = "/delete"
    /\ \E i \in InstanceNames : instance' = i
    /\ calls' = Append(calls, Call("auth", <<>>, ""))
    /\ \E outcome \in {"ok", "error"} :
        IF outcome = "ok" THEN Goto("delete") ELSE Raise
    /\ UNCHANGED <<envelope, msg, requestA, listing, ans, metadata, next_url, elapsed>>

\* the URL of line 136
DeleteUrl(project, name) ==
    <<"https://sqladmin.googleapis.com/sql/v1beta4/projects/", project,
      "/instances/", name>>

\* line 146: requests.delete(url), no timeout argument and no try
IndexDelete ==
    /\ pc = "delete"
    /\ UNCHANGED facade_vars
    /\ calls' = Append(calls, Call("delete", DeleteUrl(MY_PROJECT, instance), ""))
    /\ \E outcome \in {"ok", "error"} :
        IF outcome = "ok" THEN Goto("sleep") ELSE Raise
    /\ UNCHANGED <<route, envelope, msg, requestA, listing, ans, metadata, next_url, instance, elapsed>>

\* IndexSleep with the short sleep of proxy() in place of line 148's
IndexSleepShort ==
    /\ pc = "sleep"
    /\ UNCHANGED facade_vars
    /\ elapsed' = elapsed + SETTLE_SLEEP
    /\ Goto("answer")
    /\ UNCHANGED <<route, envelope, msg, requestA, listing, ans, metadata, next_url, instance, calls>>

\* line 148
IndexSleep ==
    /\ pc = "sleep"
    /\ UNCHANGED facade_vars
    /\ elapsed' = elapsed + DELETE_SLEEP
    /\ Goto("answer")
    /\ UNCHANGED <<route, envelope, msg, requestA, listing, ans, metadata, next_url, instance, calls>>

\* lines 153-154
IndexRespond ==
    /\ pc = "answer"
    /\ UNCHANGED facade_vars
    /\ Respond(OK)
    /\ UNCHANGED <<route, envelope, msg, requestA, listing, ans, metadata, next_url, instance,
                   calls, elapsed>>

\* the response is sent; the service waits for the next request
NextRequest ==
    /\ pc = "done"
    /\ UNCHANGED facade_vars
    /\ pc' = "idle"
    /\ route' = ""
    /\ envelope' = JsonNone
    /\ msg' = NoMsg
    /\ requestA' = "unset"
    /\ listing' = <<>>
    /\ ans' = <<>>
    /\ metadata' = EmptyDict
    /\ next_url' = 1
    /\ instance' = <<>>
    /\ calls' = <<>>
    /\ elapsed' = 0
    /\ status' = 0
    /\ returned' = ""

(***************************************************************************)
(* CloudSqlAdmin: the facade of gcsql_admin.py.  Every method is an        *)
(* operator from the last-response slot, the arguments and the Admin API's *)
(* answer to how the call ends.                                            *)
(***************************************************************************)
\* a request built from self.admin.service.<resource>().<method>(**params)
Request(resource, method, params) ==
    [resource |-> resource, method |-> method, params |-> params]

\* the method returns ret, leaving resp in the last-response slot
Return(ret, resp, reqs) ==
    [exc |-> "", ret |-> ret, response |-> resp, requests |-> reqs]

\* an exception leaves the method; the last-response slot is resp
Raised(exc, resp, reqs) ==
    [exc |-> exc, ret |-> "none", response |-> resp, requests |-> reqs]

\* SuccessOf with the test of the error field left out
SuccessOfUnchecked(resp) == TRUE

\* lines 66-68, 132-134, 191-193, 271-273, 338-340, 373-375
SuccessOf(resp) == IF Truthy(DictGet(resp, "error", "")) THEN FALSE ELSE TRUE

\* lines 61-68, 186-193, 333-340: execute inside try, HttpError caught
ExecuteGuarded(req, outcome) ==
    IF outcome.raised
    THEN Return(FALSE, [error |-> "googleapiclient.errors.HttpError"], <<req>>)
    ELSE Return(SuccessOf(outcome.body), outcome.body, <<req>>)

\* lines 131-134, 270-273, 372-375: execute with no try around it
ExecuteBare(old, req, outcome) ==
    IF outcome.raised
    THEN Raised("HttpError", old, <<req>>)
    ELSE Return(SuccessOf(outcome.body), outcome.body, <<req>>)

\* lines 87-91, 209-213: execute inside try, {} on HttpError
ExecuteGet(req, outcome) ==
    LET resp == InstancesGet(outcome) IN Return(resp, resp, <<req>>)

\* Databases.delete, lines 46-68
DatabasesDelete(old, project, inst, database, outcome) ==
    ExecuteGuarded(Request("databases", "delete",
        [project |-> project, instance |-> inst, database |-> database]), outcome)

\* Databases.get, lines 70-91
DatabasesGet(old, project, inst, database, outcome) ==
    ExecuteGet(Request("databases", "get",
        [project |-> project, instance |-> inst, database |-> database]), outcome)

\* Databases.insert, lines 93-134
DatabasesInsert(old, project, inst, database, outcome) ==
    LET request_body == [kind |-> "sql#user", name |-> database,
                         charset |-> "utf8mb4", project |-> project,
                         instance |-> inst, etag |-> "",
                         collation |-> "utf8mb4_unicode_520_ci", selfLink |-> ""]
    IN  ExecuteBare(old, Request("databases", "insert",
            [project |-> project, instance |-> inst, body |-> request_body]), outcome)

\* lines 151-152 and 389-390: one request, the items of its response
ListOnce(old, req, pages) ==
    IF pages[1].raised
    THEN Raised("HttpError", old, <<req>>)
    ELSE Return(pages[1].body.items, pages[1].body, <<req>>)

\* Databases.list, lines 136-152
DatabasesList(old, project, inst, pages) ==
    ListOnce(old, Request("databases", "list",
        [project |-> project, instance |-> inst]), pages)

\* Instances.delete, lines 172-193
InstancesDelete(old, project, inst, outcome) ==
    ExecuteGuarded(Request("instances", "delete",
        [project |-> project, instance |-> inst]), outcome)

\* Instances.get as a method call, lines 195-213
InstancesGetCall(old, project, inst, outcome) ==
    ExecuteGet(Request("instances", "get",
        [project |-> project, instance |-> inst]), outcome)

\* InstancesInsertBody with MySQL as the fallback of an unknown database_type
InstancesInsertBodyFallback(project, instance_name, root_password, database_type) ==
    [ok |-> TRUE,
     body |-> [project |-> project, name |-> instance_name,
               rootPassword |-> root_password,
               databaseVersion |-> IF database_type = "PostgreSQL"
                                   THEN "POSTGRES_9_6" ELSE "MYSQL_5_7",
               settings |-> IF database_type = "PostgreSQL"
                            THEN [tier |-> "db-custom-1-3840",
                                  availabilityType |-> "ZONAL"]
                            ELSE [userLabels |->
                                    ("owner" :> "sql" @@ "read-replica" :> "true")],
               masterInstanceName |-> "MASTER_INSTANCE_NAME",
               region |-> "us-east1"]]

\* lines 246-264: the request body per database_type; ok is FALSE where the
\* method raises ValueError
InstancesInsertBody(project, instance_name, root_password, database_type) ==
    LET request_body == [project |-> project, name |-> instance_name,
                         rootPassword |-> root_password]
    IN  IF database_type = "MySQL" THEN
            [ok |-> TRUE,
             body |-> [project |-> project, name |-> instance_name,
                       rootPassword |-> root_password,
                       databaseVersion |-> "MYSQL_5_7",
                       masterInstanceName |-> "MASTER_INSTANCE_NAME",
                       settings |-> [userLabels |->
                           ("owner" :> "sql" @@ "read-replica" :> "true")],
                       region |-> "us-east1"]]
        ELSE IF database_type = "PostgreSQL" THEN
            [ok |-> TRUE,
             body |-> [project |-> project, name |-> instance_name,
                       rootPassword |-> root_password,
                       databaseVersion |-> "POSTGRES_9_6",
                       settings |-> [tier |-> "db-custom-1-3840",
                                     availabilityType |-> "ZONAL"]]]
        ELSE [ok |-> FALSE, body |-> request_body]

\* Instances.insert, lines 215-273
InstancesInsert(old, project, instance_name, root_password, database_type, outcome) ==
    LET built == InstancesInsertBody(project, instance_name, root_password, database_type)
    IN  IF ~built.ok THEN Raised("ValueError", old, <<>>)
        ELSE ExecuteBare(old, Request("instances", "insert",
                 [project |-> project, body |-> built.body]), outcome)

\* instances().list_next: None unless the previous response has a token
ListNext(previous_response) == "nextPageToken" \in DOMAIN previous_response

\* lines 290-295: the loop from page i on, with the items gathered so far
RECURSIVE InstancesListLoop(_, _, _, _, _, _)
InstancesListLoop(old, req, pages, i, sql_instances, reqs) ==
    IF pages[i].raised THEN Raised("HttpError", old, Append(reqs, req))
    ELSE LET resp == pages[i].body
             gathered == sql_instances \o resp.items
         IN  IF ListNext(resp)
             THEN InstancesListLoop(resp, req, pages, i + 1, gathered, Append(reqs, req))
             ELSE Return(gathered, resp, Append(reqs, req))

\* Instances.list without the loop: one request, as Databases.list does
InstancesListFirstPage(old, project, pages) ==
    ListOnce(old, Request("instances", "list", [project |-> project]), pages)

\* Instances.list, lines 275-297
InstancesList(old, project, pages) ==
    InstancesListLoop(old, Request("instances", "list", [project |-> project]),
                      pages, 1, <<>>, <<>>)

\* Users.delete, lines 317-340
UsersDelete(old, project, inst, host, username, outcome) ==
    ExecuteGuarded(Request("users", "delete",
        [project |-> project, instance |-> inst, host |-> host, name |-> username]),
        outcome)

\* Users.insert, lines 342-375
UsersInsert(old, project, inst, host, username, password, outcome) ==
    LET request_body == [kind |-> "sql#user", name |-> username,
                         project |-> project, instance |-> inst, host |-> host,
                         etag |-> "", password |-> password]
    IN  ExecuteBare(old, Request("users", "insert",
            [project |-> project, instance |-> inst, body |-> request_body]), outcome)

\* Users.list, lines 377-390
UsersList(old, project, inst, pages) ==
    ListOnce(old, Request("users", "list",
        [project |-> project, instance |-> inst]), pages)

(***************************************************************************)
(* The Admin API's answers to the facade.                                  *)
(***************************************************************************)
\* the body of an answer to a mutating call: an operation resource, with no
\* error field, an empty one or a non-empty one
OperationBodies == { [kind |-> "sql#operation"],
                     [kind |-> "sql#operation", error |-> ""],
                     [kind |-> "sql#operation", error |-> "quota exceeded"] }

MutatingOutcomes == {Answer(b) : b \in OperationBodies} \cup {HttpError}

ResourceBodies == { [kind |-> "sql#resource", name |-> "n"] }

GetOutcomes == {Answer(b) : b \in ResourceBodies} \cup {HttpError}

ListItems == { [name |-> "one"], [name |-> "two"] }

\* the pages of a listing the API holds: every page but the last carries a
\* nextPageToken
Paginate(itemss) ==
    [i \in 1..Len(itemss) |->
        Answer(IF i < Len(itemss)
               THEN [items |-> itemss[i], nextPageToken |-> i + 1]
               ELSE [items |-> itemss[i]])]

ListOutcomes ==
    {Paginate(itemss) :
        itemss \in SeqsUpTo(SeqsUpTo(ListItems, MaxItems), MaxPages) \ {<<>>}}
    \cup {<<HttpError>>}

DatabaseTypes == {"MySQL", "PostgreSQL", "Oracle", ""}

\* the arguments of the calls
ARG_PROJECT  == "project"
ARG_INSTANCE == "instance"
ARG_DATABASE == "database"
ARG_HOST     == "%"
ARG_USERNAME == "username"
ARG_PASSWORD == "password"

FacadeInit ==
    /\ response = EmptyDict          \* line 26
    /\ called = [method |-> "__init__", database_type |-> ""]
    /\ remote = <<>>
    /\ result = Return("none", EmptyDict, <<>>)

\* the client calls a method: the slot, the call and its outcome are recorded
Finish(method, database_type, answers, r) ==
    /\ called' = [method |-> method, database_type |-> database_type]
    /\ remote' = answers
    /\ result' = r
    /\ response' = r.response

CallDatabasesDelete ==
    /\ \E o \in MutatingOutcomes :
           Finish("databases.delete", "", <<o>>,
                  DatabasesDelete(response, ARG_PROJECT, ARG_INSTANCE, ARG_DATABASE, o))
    /\ UNCHANGED server_vars

CallDatabasesGet ==
    /\ \E o \in GetOutcomes :
           Finish("databases.get", "", <<o>>,
                  DatabasesGet(response, ARG_PROJECT, ARG_INSTANCE, ARG_DATABASE, o))
    /\ UNCHANGED server_vars

CallDatabasesInsert ==
    /\ \E o \in MutatingOutcomes :
           Finish("databases.insert", "", <<o>>,
                  DatabasesInsert(response, ARG_PROJECT, ARG_INSTANCE, ARG_DATABASE, o))
    /\ UNCHANGED server_vars

CallDatabasesList ==
    /\ \E pages \in ListOutcomes :
           Finish("databases.list", "", pages,
                  DatabasesList(response, ARG_PROJECT, ARG_INSTANCE, pages))
    /\ UNCHANGED server_vars

CallInstancesDelete ==
    /\ \E o \in MutatingOutcomes :
           Finish("instances.delete", "", <<o>>,
                  InstancesDelete(response, ARG_PROJECT, ARG_INSTANCE, o))
    /\ UNCHANGED server_vars

CallInstancesGet ==
    /\ \E o \in GetOutcomes :
           Finish("instances.get", "", <<o>>,
                  InstancesGetCall(response, ARG_PROJECT, ARG_INSTANCE, o))
    /\ UNCHANGED server_vars

CallInstancesInsert ==
    /\ \E t \in DatabaseTypes, o \in MutatingOutcomes :
           Finish("instances.insert", t, <<o>>,
                  InstancesInsert(response, ARG_PROJECT, ARG_INSTANCE, ARG_PASSWORD, t, o))
    /\ UNCHANGED server_vars

CallInstancesList ==
    /\ \E pages \in ListOutcomes :
           Finish("instances.list", "", pages,
                  InstancesList(response, ARG_PROJECT, pages))
    /\ UNCHANGED server_vars

CallUsersDelete ==
    /\ \E o \in MutatingOutcomes :
           Finish("users.delete", "", <<o>>,
                  UsersDelete(response, ARG_PROJECT, ARG_INSTANCE, ARG_HOST, ARG_USERNAME, o))
    /\ UNCHANGED server_vars

CallUsersInsert ==
    /\ \E o \in MutatingOutcomes :
           Finish("users.insert", "", <<o>>,
                  UsersInsert(response, ARG_PROJECT, ARG_INSTANCE, ARG_HOST, ARG_USERNAME, ARG_PASSWORD, o))
    /\ UNCHANGED server_vars

CallUsersList ==
    /\ \E pages \in ListOutcomes :
           Finish("users.list", "", pages,
                  UsersList(response, ARG_PROJECT, ARG_INSTANCE, pages))
    /\ UNCHANGED server_vars

Init == ServerInit /\ FacadeInit

Next ==
    \/ ProxyReceive
    \/ ProxyAuth
    \/ ProxyListPage
    \/ ProxySelect
    \/ ProxyGet
    \/ ProxyWebhook
    \/ ProxyToken
    \/ ProxyTrigger
    \/ ProxyRespond
    \/ IndexReceive
    \/ IndexDelete
    \/ IndexSleep
    \/ IndexRespond
    \/ NextRequest

FacadeNext ==
    \/ CallDatabasesDelete
    \/ CallDatabasesGet
    \/ CallDatabasesInsert
    \/ CallDatabasesList
    \/ CallInstancesDelete
    \/ CallInstancesGet
    \/ CallInstancesInsert
    \/ CallInstancesList
    \/ CallUsersDelete
    \/ CallUsersInsert
    \/ CallUsersList

Spec == Init /\ [][Next]_vars

SpecFacade == Init /\ [][FacadeNext]_vars


(***************************************************************************)
(* What the properties speak about.                                        *)
(***************************************************************************)
\* the outbound calls of one kind, in the order they were made
CallsOf(kind) == SelectSeq(calls, LAMBDA c : c.kind = kind)

\* the positions in the log of the calls of one kind
PositionsOf(kind) == {i \in 1..Len(calls) : calls[i].kind = kind}

\* the names of a listing, page after page
RECURSIVE NamesOf(_)
NamesOf(pages) ==
    IF pages = <<>> THEN <<>>
    ELSE [i \in 1..Len(Head(pages).items) |-> Head(pages).items[i].name]
            \o NamesOf(Tail(pages))

\* the positions in the listing of the names that contain the token
MatchPositions == {i \in 1..Len(NamesOf(listing)) : Contains(Token, NamesOf(listing)[i])}

\* the intake request is over and its listing was read to the last page
IntakeListed == pc = "done" /\ route = "/proxysql" /\ requestA = "None"

\* the metadata fetched says RUNNABLE and carries an IP address
FetchedRunnable ==
    /\ "state" \in DOMAIN metadata
    /\ metadata.state = "RUNNABLE"
    /\ Len(metadata.ipAddresses) >= 1

\* C1: an open incident with a RUNNABLE first match: every webhook URL is
\* POSTed {"name": <first IP>}, then exactly one delete trigger goes to
\* RUN_URL/delete/<first match in listing order>, after every webhook call.
\* Stated of the requests the handler answers itself (no exception left it).
C1_FanOutThenOneTrigger ==
    (IntakeListed /\ msg.incident.state = "open" /\ MatchPositions # {}
        /\ FetchedRunnable /\ returned = "response")
    => LET first == NamesOf(listing)[CHOOSE i \in MatchPositions :
                                        \A j \in MatchPositions : i <= j]
           ip == metadata.ipAddresses[1].ipAddress
       IN  /\ CallsOf("webhook")
                = [i \in 1..Len(url) |-> Call("webhook", <<url[i]>>, [name |-> ip])]
           /\ CallsOf("trigger")
                = <<Call("trigger", <<RUN_URL, "/delete/", first>>, "")>>
           /\ \A w \in PositionsOf("webhook"), t \in PositionsOf("trigger") : w < t

\* C2: an incident that is not open: no webhook call, no delete trigger, and
\* the response is 200, with or without a matching instance.
C2_ClosedNoCallsAnd200 ==
    (IntakeListed /\ msg.incident.state # "open")
    => /\ CallsOf("webhook") = <<>>
       /\ CallsOf("trigger") = <<>>
       /\ returned = "response"
       /\ status = OK

\* C3: a listing with no name that contains the token: nothing is called
\* after the listing (no metadata fetch, no webhook, no token, no delete
\* trigger) and the response is 200, whatever the incident state.
C3_NoMatchNoCallsAnd200 ==
    (route = "/proxysql" /\ requestA = "None" /\ MatchPositions = {})
    => /\ \A i \in 1..Len(calls) : calls[i].kind \in {"auth", "list"}
       /\ pc \in {"select", "done"}
       /\ pc = "done" => (returned = "response" /\ status = OK)

C3_Witness ==
    /\ IntakeListed
    /\ MatchPositions = {}
    /\ Len(NamesOf(listing)) >= 1
    /\ msg.incident.state = "open"
    /\ status = OK

\* the envelope is no JSON body, or has no "message", or its message has no
\* "data"
Malformed(e) ==
    \/ e.type # "dict"
    \/ "message" \notin DOMAIN e.val
    \/ e.val["message"].type # "dict"
    \/ "data" \notin DOMAIN e.val["message"].val

\* C4: a request with no JSON body, no message key or no data field is
\* answered 400 and makes no outbound call.
C4_Malformed400 ==
    (pc = "done" /\ route = "/proxysql" /\ Malformed(envelope))
    => /\ status = BAD_REQUEST
       /\ returned = "response"
       /\ calls = <<>>

\* C5: every intake request that no exception cuts short ends with an
\* explicit response, 400 or 200: with no match, with an incident that is
\* not open, with an instance that is not RUNNABLE, after the fan-out.
C5_ExplicitResponse ==
    (pc = "done" /\ route = "/proxysql" /\ returned # "exception")
    => /\ returned = "response"
       /\ status \in {BAD_REQUEST, OK}

\* C6: the delete endpoint calls the remote delete once, for the instance of
\* the path in the configured project, makes no other mutating call, and
\* answers 200 only after that call and after the fixed wait.
C6_DeleteThenWaitThen200 ==
    route = "/delete"
    => /\ \A i \in 1..Len(calls) : calls[i].kind \in {"auth", "delete"}
       /\ Len(CallsOf("delete")) <= 1
       /\ \A i \in PositionsOf("delete") :
            calls[i].target = <<"https://sqladmin.googleapis.com/sql/v1beta4/projects/",
                                MY_PROJECT, "/instances/", instance>>
       /\ status = OK => (Len(CallsOf("delete")) = 1 /\ elapsed >= DELETE_SLEEP)

C6_Witness ==
    /\ route = "/delete"
    /\ pc = "done"
    /\ status = OK
    /\ Len(CallsOf("delete")) = 1
    /\ elapsed = DELETE_SLEEP

(***************************************************************************)
(* Properties of the facade.                                               *)
(***************************************************************************)
MutatingMethods == {"databases.delete", "databases.insert",
                    "instances.delete", "instances.insert",
                    "users.delete", "users.insert"}

ListMethods == {"databases.list", "instances.list", "users.list"}

\* the last call was a mutating one and it executed its request
MutatingCallExecuted == called.method \in MutatingMethods /\ result.requests # <<>>

\* C7: a mutating call whose request raises a transport error returns False
\* and raises nothing.
C7_TransportErrorIsFalse ==
    (MutatingCallExecuted /\ remote[1].raised)
    => (result.exc = "" /\ result.ret = FALSE)

\* the items of all the pages the API holds, in page order
RECURSIVE AllItems(_)
AllItems(pages) ==
    IF pages = <<>> THEN <<>> ELSE Head(pages).body.items \o AllItems(Tail(pages))

C9_InsertBodyOrValueError ==
    [][called'.method = "instances.insert" =>
        LET t == called'.database_type
            sent == result'.requests
        IN  /\ t = "MySQL" =>
                /\ Len(sent) = 1
                /\ sent[1].params.body.databaseVersion = "MYSQL_5_7"
                /\ sent[1].params.body.settings =
                     [userLabels |-> ("owner" :> "sql" @@ "read-replica" :> "true")]
                /\ sent[1].params.body.region = "us-east1"
                /\ sent[1].params.body.masterInstanceName = "MASTER_INSTANCE_NAME"
            /\ t = "PostgreSQL" =>
                /\ Len(sent) = 1
                /\ sent[1].params.body.databaseVersion = "POSTGRES_9_6"
                /\ sent[1].params.body.settings =
                     [tier |-> "db-custom-1-3840", availabilityType |-> "ZONAL"]
            /\ t \notin {"MySQL", "PostgreSQL"} =>
                /\ result'.exc = "ValueError"
                /\ sent = <<>>
                /\ response' = response
    ]_vars

C9_Witness ==
    /\ called.method = "instances.insert"
    /\ called.database_type = "Oracle"
    /\ result.exc = "ValueError"
    /\ result.requests = <<>>
    /\ response # EmptyDict

\* the response carries an error field that is not empty
HasError(body) == "error" \in DOMAIN body /\ body["error"] # ""

\* C10: a mutating call whose request is answered with a non-empty error
\* field returns False; it returns True only when the answer has no error
\* field or an empty one.
C10_ErrorFieldIsFalse ==
    (MutatingCallExecuted /\ ~remote[1].raised)
    => /\ result.exc = ""
       /\ HasError(remote[1].body) => result.ret = FALSE
       /\ result.ret = TRUE => ~HasError(remote[1].body)

C10_Witness ==
    /\ called.method = "users.insert"
    /\ ~remote[1].raised
    /\ HasError(remote[1].body)
    /\ result.exc = ""
    /\ result.ret = FALSE

(***************************************************************************)
(* Properties of the fan-out of the intake handler.                        *)
(***************************************************************************)
\* a webhook call or a delete trigger is in the log of the request
FannedOut == CallsOf("webhook") # <<>> \/ CallsOf("trigger") # <<>>

\* C11: a webhook call or a delete trigger is made only for an open incident
\* whose first match was fetched in state RUNNABLE; with any other fetched
\* state (or no metadata at all) neither is made.
C11_OnlyOpenAndRunnable ==
    route = "/proxysql"
    => /\ FannedOut =>
            /\ msg.incident.state = "open"
            /\ CallsOf("get") = <<Call("get", <<MY_PROJECT, ans[1]>>, "")>>
            /\ "state" \in DOMAIN metadata
            /\ metadata.state = "RUNNABLE"
       /\ (CallsOf("get") # <<>> /\ pc # "get"
              /\ ("state" \notin DOMAIN metadata \/ metadata.state # "RUNNABLE"))
          => (~FannedOut /\ pc = "done")

C11_Witness ==
    /\ route = "/proxysql"
    /\ pc = "done"
    /\ msg.incident.state = "open"
    /\ CallsOf("get") # <<>>
    /\ "state" \in DOMAIN metadata
    /\ metadata.state = "PENDING_CREATE"
    /\ Len(metadata.ipAddresses) >= 1
    /\ ~FannedOut

\* C12: in a fan-out the handler answers itself, every webhook URL is POSTed
\* exactly once, whatever happened to the calls before it, the delete
\* trigger follows, and the answer is 200.
C12_BestEffortFanOut ==
    (pc = "done" /\ route = "/proxysql" /\ CallsOf("webhook") # <<>>
        /\ returned = "response")
    => /\ \A u \in 1..Len(url) :
            Cardinality({i \in PositionsOf("webhook") : calls[i].target = <<url[u]>>}) = 1
       /\ Len(CallsOf("trigger")) = 1
       /\ status = OK

====
